---------------------------- MODULE Spec2Model ----------------------------
(* Model of the snek game core (src/src/logic.rs): the Game state machine, *)
(* Snek::update (movement, wrap-around, collision, growth), the keypress   *)
(* handler and apple placement, driven by the event loop of src/main.rs.   *)
EXTENDS Integers, Sequences, FiniteSets, TLC

(* ------------------------------ bounds --------------------------------- *)
\* Boards of the game-level specification have at most MaxTiles tiles.
MaxTiles == 6
\* updates_per_move ranges over 1..MaxUpm.
MaxUpm == 2

(* --------------------------- program constants ------------------------- *)
\* u8 arithmetic is modulo 2^8; 255 is the largest u8.
U8Mod == 256
U8Max == 255
\* `distance` of move_pos is an i8.
I8 == (0 - U8Mod \div 2)..(U8Mod \div 2 - 1)

None == <<>>

GameStates == {"Lost", "Running", "Paused"}
Directions == {"Up", "Down", "Right", "Left"}
DirKeys == {"W", "A", "S", "D", "Up", "Left", "Down", "Right"}
\* "Other" stands for every key (or non-keyboard button) the code does not match.
Keys == DirKeys \cup {"Space", "R", "Other"}
ButtonStates == {"Press", "Release"}

VARIABLES
    snek,             \* Game.snek: [segs, dir, next_dir, move_counter, updates_per_move]
    apple_pos,        \* Game.apple_pos: None or <<x, y>>
    game_size,        \* Game.game_size: <<width, height>>
    state,            \* Game.state
    updates_per_move, \* Game.updates_per_move
    hung,             \* control is inside randomize_apple's loop, which cannot exit
    ev,               \* the last event the loop of main dispatched: <<kind, key pressed>>
    ret,              \* what Snek::update returned in the last event, None if not called
    mp,               \* a call of Direction::move_pos: its inputs and outputs
    panicked,         \* the process has panicked (unwrap, expect or arithmetic overflow)
    pc                \* where control is: "idle" between events, or inside a loop

vars == <<snek, apple_pos, game_size, state, updates_per_move, hung, ev, ret, mp,
          panicked, pc>>

(* ------------------------------ Direction ------------------------------ *)
AsU8(n) == n % U8Mod

\* Up adds to y, as Down does.
MovePos_UpAdds(d, distance, pos) ==
    CASE d = "Up"    -> <<pos[1], AsU8(pos[2] + AsU8(distance))>>
      [] d = "Down"  -> <<pos[1], AsU8(pos[2] + AsU8(distance))>>
      [] d = "Right" -> <<AsU8(pos[1] + AsU8(distance)), pos[2]>>
      [] d = "Left"  -> <<AsU8(pos[1] - AsU8(distance)), pos[2]>>

MovePos(d, distance, pos) ==
    CASE d = "Up"    -> <<pos[1], AsU8(pos[2] - AsU8(distance))>>
      [] d = "Down"  -> <<pos[1], AsU8(pos[2] + AsU8(distance))>>
      [] d = "Right" -> <<AsU8(pos[1] + AsU8(distance)), pos[2]>>
      [] d = "Left"  -> <<AsU8(pos[1] - AsU8(distance)), pos[2]>>

NoDir == "Err"

TryFromKey(k) ==
    CASE k \in {"W", "Up"}    -> "Up"
      [] k \in {"A", "Left"}  -> "Left"
      [] k \in {"S", "Down"}  -> "Down"
      [] k \in {"D", "Right"} -> "Right"
      [] OTHER                -> NoDir

Opposite(d) ==
    CASE d = "Up"    -> "Down"
      [] d = "Down"  -> "Up"
      [] d = "Right" -> "Left"
      [] d = "Left"  -> "Right"

(* -------------------------------- Snek --------------------------------- *)
\* The new snake heads Right but has Up pending.
SnekNew_PendingUp(upm) ==
    [updates_per_move |-> upm,
     segs             |-> << <<0, 0>> >>,
     dir              |-> "Right",
     next_dir         |-> "Up",
     move_counter     |-> 0]

SnekNew(upm) ==
    [updates_per_move |-> upm,
     segs             |-> << <<0, 0>> >>,
     dir              |-> "Right",
     next_dir         |-> "Right",
     move_counter     |-> 0]

MoveDir(seg, dist, d) == MovePos(d, dist, seg)

\* if moved.N == 255 { moved.N = board_size.N - 1 }
WrapLow(v, dim) == IF v = U8Max THEN dim - 1 ELSE v

\* The coordinate equal to the dimension is let through.
WrapHigh_OffByOne(v, dim) == IF v > dim THEN 0 ELSE v

\* if moved.N >= board_size.N { moved.N = 0 }
WrapHigh(v, dim) == IF v >= dim THEN 0 ELSE v

WrapBoard(moved, board_size) ==
    <<WrapHigh(WrapLow(moved[1], board_size[1]), board_size[1]),
      WrapHigh(WrapLow(moved[2], board_size[2]), board_size[2])>>

\* Only the head is compared.
CheckCollides_HeadOnly(segs, pos) == Len(segs) >= 1 /\ segs[1] = pos

\* The scan leaves out the last segment.
CheckCollides_SkipTail(segs, pos) == \E i \in 1..(Len(segs) - 1) : segs[i] = pos

CheckCollides(segs, pos) == \E i \in 1..Len(segs) : segs[i] = pos

PushFront(segs, seg) == <<seg>> \o segs

\* The front segment is dropped instead of the back one.
PopBack_Front(segs) == Tail(segs)

\* Two segments are dropped from the back.
PopBack_Twice(segs) == SubSeq(segs, 1, Len(segs) - 2)

PopBack(segs) == SubSeq(segs, 1, Len(segs) - 1)

\* The move is taken one update late.
MoveDue_Late(counter, upm) == counter > upm

\* if self.move_counter >= self.updates_per_move
MoveDue(counter, upm) == counter >= upm

\* Snek::update panics: `move_counter += 1` overflows the u8 (a build with
\* overflow checks), or a move is due and the body has no front segment
\* (expect("snek has no body")) or `board_size.N - 1` underflows.
SnekUpdatePanics(s, board_size) ==
    \/ s.move_counter + 1 > U8Max
    \/ /\ MoveDue(AsU8(s.move_counter + 1), s.updates_per_move)
       /\ \/ Len(s.segs) = 0
          \/ LET moved == MoveDir(Head(s.segs), 1, s.next_dir)
             IN \/ moved[1] = U8Max /\ board_size[1] - 1 < 0
                \/ moved[2] = U8Max /\ board_size[2] - 1 < 0

\* Snek::update: the snake after the call and the pair (apple_eaten, game_lost).
SnekUpdate(s, apple, board_size) ==
    LET counter == AsU8(s.move_counter + 1) IN
    IF MoveDue(counter, s.updates_per_move)
    THEN LET d      == s.next_dir
             moved  == WrapBoard(MoveDir(Head(s.segs), 1, d), board_size)
             lost   == CheckCollides(s.segs, moved)
             pushed == PushFront(s.segs, moved)
             ate    == Head(pushed) = apple
         IN [snek |-> [s EXCEPT !.move_counter = 0,
                                !.dir = d,
                                !.segs = IF ~ate THEN PopBack(pushed) ELSE pushed],
             ret  |-> <<ate, lost>>]
    ELSE [snek |-> [s EXCEPT !.move_counter = counter],
          ret  |-> <<FALSE, FALSE>>]

(* -------------------------------- Game --------------------------------- *)
Tiles(board_size) == (0..(board_size[1] - 1)) \X (0..(board_size[2] - 1))

\* The apple is placed next to the head, to its right, wherever the body is.
RandomizeApple_NextToHead(segs, board_size) ==
    {<<(Head(segs)[1] + 1) % board_size[1], Head(segs)[2]>>}

\* Only the head is kept clear of the apple.
RandomizeApple_OffHead(segs, board_size) == Tiles(board_size) \ {Head(segs)}

\* The loop stops at the first tile drawn, on the snake or not.
RandomizeApple_FirstDraw(segs, board_size) == Tiles(board_size)

\* The positions randomize_apple can end with: the loop draws tiles of the
\* board until one is not on the snake. The empty set: the loop never exits.
RandomizeApple(segs, board_size) ==
    {p \in Tiles(board_size) : ~CheckCollides(segs, p)}

\* self.apple_pos.unwrap() panics on None.
UnwrapPanics(apple) == apple = None

\* An update also runs the snake while the game is Paused.
IsRunning_OrPaused(st) == st # "Lost"

\* if let GameState::Running = self.state
IsRunning(st) == st = "Running"

\* Space restarts a lost game.
SpaceToggle_FromLost(st) ==
    CASE st = "Running" -> "Paused"
      [] OTHER          -> "Running"

\* Space pauses but never resumes.
SpaceToggle_NoResume(st) ==
    CASE st = "Running" -> "Paused"
      [] OTHER          -> st

SpaceToggle(st) ==
    CASE st = "Running" -> "Paused"
      [] st = "Paused"  -> "Running"
      [] OTHER          -> st

\* No reversal check: every direction key is taken.
Turn_Always(s, d) == d

\* The reversal check compares with the pending heading.
Turn_Pending(s, d) == IF Opposite(d) # s.next_dir THEN d ELSE s.next_dir

\* The reversal check of keypress: the pending heading after a direction key.
Turn(s, d) == IF Opposite(d) # s.dir THEN d ELSE s.next_dir

MpIdle == [phase |-> "idle"]

\* The board sizes of the game-level specification: every width and height
\* from 1 whose board has at most MaxTiles tiles.
Boards == {b \in (1..MaxTiles) \X (1..MaxTiles) : b[1] * b[2] <= MaxTiles}

Init ==
    /\ game_size \in Boards
    /\ updates_per_move \in 1..MaxUpm
    /\ snek = SnekNew(updates_per_move)
    /\ apple_pos = None
    /\ state = "Paused"
    /\ hung = FALSE
    /\ ev = <<"New", "">>
    /\ ret = None
    /\ mp = MpIdle
    /\ panicked = FALSE
    /\ pc = "idle"

\* Game::update, one update event. When randomize_apple has no free tile to
\* end on, the call never returns: hung becomes TRUE, no later event is
\* dispatched, and apple_pos keeps the None of the loop's entry.
Update ==
    /\ ~hung
    /\ ~panicked
    /\ ev' = <<"Update", "">>
    /\ UNCHANGED <<game_size, updates_per_move, mp, pc>>
    /\ IF IsRunning(state)
       THEN LET placed == IF apple_pos = None
                          THEN RandomizeApple(snek.segs, game_size)
                          ELSE {apple_pos}
            IN IF placed = {}
               THEN /\ hung' = TRUE
                    /\ apple_pos' = None
                    /\ ret' = None
                    /\ UNCHANGED <<snek, state, panicked>>
               ELSE \E a \in placed :
                    IF UnwrapPanics(a) \/ SnekUpdatePanics(snek, game_size)
                    THEN /\ panicked' = TRUE
                         /\ ret' = None
                         /\ UNCHANGED <<snek, apple_pos, state, hung>>
                    ELSE
                    LET r == SnekUpdate(snek, a, game_size) IN
                    /\ panicked' = FALSE
                    /\ snek' = r.snek
                    /\ ret' = r.ret
                    /\ CASE r.ret[2] ->
                              /\ state' = "Lost"
                              /\ apple_pos' = a
                              /\ hung' = FALSE
                         [] r.ret[1] /\ ~r.ret[2] ->
                              /\ state' = state
                              /\ LET again == RandomizeApple(r.snek.segs, game_size)
                                 IN IF again = {}
                                    THEN hung' = TRUE /\ apple_pos' = None
                                    ELSE hung' = FALSE /\ apple_pos' \in again
                         [] OTHER ->
                              /\ state' = state
                              /\ apple_pos' = a
                              /\ hung' = FALSE
       ELSE /\ ret' = None
            /\ UNCHANGED <<snek, apple_pos, state, hung, panicked>>

\* Game::keypress, one button event.
Keypress ==
    /\ ~hung
    /\ ~panicked
    /\ \E bs \in ButtonStates, k \in Keys :
        /\ ev' = IF bs = "Press" THEN <<bs, k>> ELSE <<bs, "">>
        /\ ret' = None
        /\ UNCHANGED <<game_size, updates_per_move, mp, panicked, pc>>
        /\ IF bs = "Press"
           THEN LET d      == TryFromKey(k)
                    turned == IF d # NoDir
                              THEN [snek EXCEPT !.next_dir = Turn(snek, d)]
                              ELSE snek
                IN CASE k = "Space" ->
                          /\ state' = SpaceToggle(state)
                          /\ snek' = turned
                          /\ UNCHANGED <<apple_pos, hung>>
                     [] k = "R" ->
                          /\ state' = "Paused"
                          /\ snek' = SnekNew(updates_per_move)
                          /\ LET again == RandomizeApple(SnekNew(updates_per_move).segs, game_size)
                             IN IF again = {}
                                THEN hung' = TRUE /\ apple_pos' = None
                                ELSE hung' = FALSE /\ apple_pos' \in again
                     [] OTHER ->
                          /\ snek' = turned
                          /\ UNCHANGED <<apple_pos, state, hung>>
           ELSE UNCHANGED <<snek, apple_pos, state, hung>>

Next == Update \/ Keypress

Spec == Init /\ [][Next]_vars

(* ---------------- Snek::update on boards up to the u8 limit -------------- *)
\* Board dimensions at both ends of the u8 range.
EdgeDims == {3, 4, U8Max - 1, U8Max}

\* The coordinates next to the two edges of a dimension.
EdgeCoords(dim) == {0, 1, dim - 2, dim - 1}

\* The values of move_counter at both ends of 0..upm-1.
EdgeCounters(upm) == {c \in {0, upm - 2, upm - 1} : c >= 0}

\* A running game whose snake has one segment (it has not eaten since the
\* last reset): the head next to an edge, any committed heading, any pending
\* heading keypress allows, and the apple (placed while the snake was at
\* (0,0)) off the head's row and column.
InitSnek ==
    /\ game_size \in EdgeDims \X EdgeDims
    /\ updates_per_move \in (1..MaxUpm) \cup {U8Max}
    /\ \E head \in EdgeCoords(game_size[1]) \X EdgeCoords(game_size[2]),
          d \in Directions, nd \in Directions, c \in EdgeCounters(updates_per_move) :
        /\ nd # Opposite(d)
        /\ snek = [SnekNew(updates_per_move) EXCEPT !.segs = <<head>>,
                                                     !.dir = d,
                                                     !.next_dir = nd,
                                                     !.move_counter = c]
        /\ apple_pos \in {p \in {1, 2} \X {1, 2} : p[1] # head[1] /\ p[2] # head[2]}
    /\ state = "Running"
    /\ hung = FALSE
    /\ ev = <<"New", "">>
    /\ ret = None
    /\ mp = MpIdle
    /\ panicked = FALSE
    /\ pc = "idle"

\* One update event on such a game.
NextSnek == ev[1] = "New" /\ Update

SpecSnek == InitSnek /\ [][NextSnek]_vars

(* ------- the game on small boards together with the u8-limit cases ------- *)
InitAll == Init \/ InitSnek

\* Any sequence of events on the small boards; one update on the others.
NextAll == (game_size \in Boards /\ Next) \/ NextSnek

SpecAll == InitAll /\ [][NextAll]_vars

(* ------------------ the loop of Game::randomize_apple -------------------- *)
\* A snake of len segments along row 0, head at (len-1, 0), tail at (0, 0):
\* the fresh snake (len = 1), or the snake that went Right from (0,0) and ate
\* an apple on each tile it entered.
StraightSnake(len) == [i \in 1..len |-> <<len - i, 0>>]

\* Control has entered randomize_apple from Game::update, with the fresh snake
\* before its first move or with a straight snake that has just eaten, and has
\* executed `self.apple_pos = None`.
InitPlace ==
    /\ game_size \in Boards
    /\ updates_per_move \in 1..MaxUpm
    /\ \E len \in 1..game_size[1] :
        /\ snek = [SnekNew(updates_per_move) EXCEPT !.segs = StraightSnake(len)]
        /\ ret = IF len = 1 THEN None ELSE <<TRUE, FALSE>>
    /\ apple_pos = None
    /\ state = "Running"
    /\ hung = FALSE
    /\ ev = <<"Update", "">>
    /\ mp = MpIdle
    /\ panicked = FALSE
    /\ pc = "randomize_apple"

\* while self.apple_pos.is_none() || self.snek.check_collides(self.apple_pos.unwrap())
LoopCondition == apple_pos = None \/ CheckCollides(snek.segs, apple_pos)

\* One iteration of the loop in which gen_range draws the tile p.
DrawTile(p) ==
    /\ pc = "randomize_apple"
    /\ LoopCondition
    /\ p \in Tiles(game_size)
    /\ apple_pos' = p
    /\ UNCHANGED <<snek, game_size, state, updates_per_move, hung, ev, ret, mp,
                   panicked, pc>>

\* The loop condition is false and randomize_apple returns.
RandomizeReturn ==
    /\ pc = "randomize_apple"
    /\ ~LoopCondition
    /\ pc' = "idle"
    /\ UNCHANGED <<snek, apple_pos, game_size, state, updates_per_move, hung, ev,
                   ret, mp, panicked>>

NextPlace == (\E p \in Tiles(<<MaxTiles, MaxTiles>>) : DrawTile(p)) \/ RandomizeReturn

\* The random draws are fair: a tile that can be drawn at every iteration is
\* drawn at some iteration; and control leaves a loop whose condition is false.
SpecPlace ==
    /\ InitPlace
    /\ [][NextPlace]_vars
    /\ \A p \in Tiles(<<MaxTiles, MaxTiles>>) : WF_vars(DrawTile(p))
    /\ WF_vars(RandomizeReturn)

(* ----------------------- Direction::move_pos alone ----------------------- *)
EdgeU8 == {0, 1, U8Max \div 2, U8Max \div 2 + 1, U8Max - 1, U8Max}

InitMovePos ==
    /\ game_size = <<1, 1>>
    /\ updates_per_move = 1
    /\ snek = SnekNew(updates_per_move)
    /\ apple_pos = None
    /\ state = "Paused"
    /\ hung = FALSE
    /\ ev = <<"New", "">>
    /\ ret = None
    /\ panicked = FALSE
    /\ pc = "idle"
    /\ \E d \in Directions, distance \in I8, pos \in EdgeU8 \X EdgeU8 :
        mp = [phase |-> "in", dir |-> d, distance |-> distance, pos |-> pos,
              out |-> pos]

\* d.move_pos(distance, &mut x, &mut y)
MovePosCall ==
    /\ mp.phase = "in"
    /\ mp' = [mp EXCEPT !.phase = "moved",
                        !.out = MovePos(mp.dir, mp.distance, mp.pos)]
    /\ UNCHANGED <<snek, apple_pos, game_size, state, updates_per_move, hung, ev, ret,
                   panicked, pc>>

\* (!d).move_pos(distance, &mut x, &mut y) on the result
MovePosBack ==
    /\ mp.phase = "moved"
    /\ mp' = [mp EXCEPT !.phase = "back",
                        !.out = MovePos(Opposite(mp.dir), mp.distance, mp.out)]
    /\ UNCHANGED <<snek, apple_pos, game_size, state, updates_per_move, hung, ev, ret,
                   panicked, pc>>

NextMovePos == MovePosCall \/ MovePosBack

SpecMovePos == InitMovePos /\ [][NextMovePos]_vars

(* ------------------------------ properties ------------------------------ *)
Range(seq) == {seq[i] : i \in 1..Len(seq)}

\* The step is an update event in which Snek::update ran and committed a move.
CommittedMove ==
    /\ ev'[1] = "Update"
    /\ state = "Running"
    /\ ret' # None
    /\ snek'.move_counter = 0

\* The step is an update event in which Snek::update ran without moving.
WaitingTick ==
    /\ ev'[1] = "Update"
    /\ state = "Running"
    /\ ret' # None
    /\ snek'.move_counter # 0

\* C1: for every board width W and height H in 1..255, a committed move from
\* x = 0 heading Left ends with the head at x = W-1, from x = W-1 heading
\* Right at x = 0, from y = 0 heading Up at y = H-1 and from y = H-1 heading
\* Down at y = 0, the other coordinate unchanged.
C1_WrapAround ==
    [][CommittedMove =>
        LET h == Head(snek.segs)
            n == Head(snek'.segs)
            d == snek'.dir
        IN /\ (d = "Left"  /\ h[1] = 0)                => n = <<game_size[1] - 1, h[2]>>
           /\ (d = "Right" /\ h[1] = game_size[1] - 1) => n = <<0, h[2]>>
           /\ (d = "Up"    /\ h[2] = 0)                => n = <<h[1], game_size[2] - 1>>
           /\ (d = "Down"  /\ h[2] = game_size[2] - 1) => n = <<h[1], 0>>]_vars

\* C2: a Running tick that commits a move ends Lost exactly when the new head
\* tile was one of the segments before the move, the tail included, whether
\* or not the apple was eaten; otherwise the state stays Running.
C2_LostIffCollision ==
    [][CommittedMove =>
        /\ ret'[2] = (Head(snek'.segs) \in Range(snek.segs))
        /\ state' = IF Head(snek'.segs) \in Range(snek.segs) THEN "Lost" ELSE "Running"]_vars

\* A move onto the tile the tail was leaving: the game is Lost although the
\* new head is on no other segment.
C2_Witness ==
    /\ ev[1] = "Update"
    /\ ret = <<FALSE, TRUE>>
    /\ state = "Lost"
    /\ Len(snek.segs) >= 3
    /\ Head(snek.segs) \notin Range(Tail(snek.segs))

\* C3: a committed move that eats the apple puts the new head in front of all
\* the old segments (one more segment, the old tail kept); one that does not
\* puts it in front of the old segments without the last one (same count);
\* with an apple on the board, the move eats exactly when the new head is on it.
C3_GrowOrShift ==
    [][CommittedMove =>
        LET n == Head(snek'.segs) IN
        /\ (apple_pos # None) => (ret'[1] = (n = apple_pos))
        /\ ret'[1] =>
              /\ snek'.segs = <<n>> \o snek.segs
              /\ Len(snek'.segs) = Len(snek.segs) + 1
        /\ ~ret'[1] =>
              /\ snek'.segs = <<n>> \o SubSeq(snek.segs, 1, Len(snek.segs) - 1)
              /\ Len(snek'.segs) = Len(snek.segs)]_vars

\* The snake has just eaten and is three segments or more.
C3_Witness ==
    /\ ev[1] = "Update"
    /\ ret # None
    /\ ret[1]
    /\ Len(snek.segs) >= 3

\* The step is an update event of a Running game that returned.
RunningTick ==
    /\ ev'[1] = "Update"
    /\ state = "Running"
    /\ ~hung'

\* The new head n is the old head h or differs from it on the axis of d only.
AlongAxis(h, n, d) ==
    IF d \in {"Left", "Right"} THEN n[2] = h[2] ELSE n[1] = h[1]

KeyHeading ==
    [k \in DirKeys |->
        CASE k \in {"W", "Up"}   -> "Up"
          [] k \in {"A", "Left"} -> "Left"
          [] k \in {"S", "Down"} -> "Down"
          [] OTHER               -> "Right"]

Reverse == [d \in Directions |->
    CASE d = "Up" -> "Down" [] d = "Down" -> "Up" [] d = "Left" -> "Right" [] OTHER -> "Left"]

\* C5: a press of a direction key for d sets next_dir to d iff d is not the
\* opposite of dir, and otherwise leaves next_dir as it was; dir, segments,
\* move_counter, apple and game state are unchanged either way.
C5_TurnUnlessReversal ==
    [][(ev'[1] = "Press" /\ ev'[2] \in DirKeys) =>
        LET d == KeyHeading[ev'[2]] IN
        /\ snek'.next_dir = IF d # Reverse[snek.dir] THEN d ELSE snek.next_dir
        /\ snek'.dir = snek.dir
        /\ snek'.segs = snek.segs
        /\ snek'.move_counter = snek.move_counter
        /\ snek'.updates_per_move = snek.updates_per_move
        /\ apple_pos' = apple_pos
        /\ state' = state]_vars

\* Heading Right with Up pending, Left was pressed: the pending heading is
\* still Up.
C5_Witness ==
    /\ ev = <<"Press", "A">>
    /\ snek.dir = "Right"
    /\ snek.next_dir = "Up"
    /\ Len(snek.segs) >= 2

\* C6: from Lost, an update event changes nothing of the game, every event
\* other than a press of R leaves the state Lost, and a press of R leads to
\* Paused.
C6_LostUntilReset ==
    [][state = "Lost" =>
        /\ (ev'[1] = "Update") =>
              UNCHANGED <<snek, apple_pos, state, game_size, updates_per_move>>
        /\ (ev' # <<"Press", "R">>) => (state' = "Lost" /\ snek'.segs = snek.segs)
        /\ (ev' = <<"Press", "R">>) => state' = "Paused"]_vars

\* Space was pressed on a lost game, which is still Lost.
C6_Witness ==
    /\ state = "Lost"
    /\ ev = <<"Press", "Space">>

\* C7: the game starts Paused; a press of Space turns Paused into Running and
\* Running into Paused and leaves Lost; a release of any key changes nothing.
C7_SpaceAndRelease ==
    /\ state = "Paused"
    /\ [][/\ (ev' = <<"Press", "Space">>) =>
                /\ state = "Paused"  => state' = "Running"
                /\ state = "Running" => state' = "Paused"
                /\ state = "Lost"    => state' = "Lost"
          /\ (ev'[1] = "Release") =>
                UNCHANGED <<snek, apple_pos, game_size, state, updates_per_move, hung>>]_vars

\* A game that has moved was resumed by Space.
C7_Witness ==
    /\ ev = <<"Press", "Space">>
    /\ state = "Running"
    /\ Len(snek.segs) >= 2

\* C8: a press of R that returns leaves the game Paused with a snake of one
\* segment at (0,0), heading Right, Right pending, move_counter 0, and the
\* apple on a tile of the board other than (0,0); the board size and
\* updates_per_move are unchanged.
C8_Reset ==
    [][(ev' = <<"Press", "R">> /\ ~hung') =>
        /\ state' = "Paused"
        /\ snek'.segs = << <<0, 0>> >>
        /\ snek'.dir = "Right"
        /\ snek'.next_dir = "Right"
        /\ snek'.move_counter = 0
        /\ snek'.updates_per_move = updates_per_move
        /\ apple_pos' # None
        /\ apple_pos' \in Tiles(game_size)
        /\ apple_pos' # <<0, 0>>
        /\ game_size' = game_size
        /\ updates_per_move' = updates_per_move]_vars

\* R was pressed and returned.
C8_Witness ==
    /\ ev = <<"Press", "R">>
    /\ ~hung
    /\ state = "Paused"
    /\ apple_pos # None

\* The step ran randomize_apple to its end: a press of R, a Running update
\* that found no apple, or a Running update in which the snake ate.
PlacedByReset  == ev' = <<"Press", "R">> /\ ~hung'
PlacedAtStart  == ev'[1] = "Update" /\ state = "Running" /\ apple_pos = None /\ ret' # None
PlacedAfterEat == ev'[1] = "Update" /\ ret' # None /\ ret'[1] /\ ~ret'[2] /\ ~hung'

\* C9: when randomize_apple completes, the apple is present, on a tile of the
\* board and on no segment of the snake it was placed against (the snake
\* before the move for a placement at the start of an update: if that move
\* eats the apple just placed, the new head was on no segment, so the move
\* does not collide).
C9_AppleOffSnake ==
    [][/\ (PlacedByReset \/ PlacedAfterEat) =>
             /\ apple_pos' # None
             /\ apple_pos' \in Tiles(game_size)
             /\ apple_pos' \notin Range(snek'.segs)
       /\ (PlacedAtStart /\ ~ret'[1]) =>
             /\ apple_pos' # None
             /\ apple_pos' \in Tiles(game_size)
             /\ apple_pos' \notin Range(snek.segs)
       /\ (PlacedAtStart /\ ret'[1]) =>
             /\ Head(snek'.segs) \in Tiles(game_size)
             /\ Head(snek'.segs) \notin Range(snek.segs)]_vars

\* The snake ate, and the apple was placed again with three segments or more
\* to avoid.
C9_Witness ==
    /\ ev[1] = "Update"
    /\ ret = <<TRUE, FALSE>>
    /\ ~hung
    /\ Len(snek.segs) >= 3
    /\ apple_pos # None

\* n modulo 256, for any integer n.
Mod256(n) == ((n % 256) + 256) % 256

\* -d as an i8: the negation wraps at the lowest value.
NegI8(d) == IF d = 0 - 128 THEN d ELSE 0 - d

\* C10: move_pos adds the distance modulo 256 on the axis of the direction
\* (Down y+d, Up y-d, Right x+d, Left x-d) and leaves the other axis alone;
\* moving by -d is moving by d in the opposite direction; moving by d and then
\* by d in the opposite direction returns to the start.
C10_MovePos ==
    (mp.phase # "idle") =>
        LET x == mp.pos[1]
            y == mp.pos[2]
            d == mp.distance
            there == CASE mp.dir = "Down"  -> <<x, Mod256(y + d)>>
                       [] mp.dir = "Up"    -> <<x, Mod256(y - d)>>
                       [] mp.dir = "Right" -> <<Mod256(x + d), y>>
                       [] mp.dir = "Left"  -> <<Mod256(x - d), y>>
        IN /\ (mp.phase = "moved") => mp.out = there
           /\ (mp.phase = "back") => mp.out = mp.pos
           /\ MovePos(mp.dir, NegI8(d), mp.pos) = MovePos(Reverse[mp.dir], d, mp.pos)
           /\ MovePos(mp.dir, NegI8(d), mp.pos)
                 = (CASE mp.dir = "Down"  -> <<x, Mod256(y - d)>>
                      [] mp.dir = "Up"    -> <<x, Mod256(y + d)>>
                      [] mp.dir = "Right" -> <<Mod256(x - d), y>>
                      [] mp.dir = "Left"  -> <<Mod256(x + d), y>>)

\* Up by 5 from (x, 0), below zero and so around the u8 range, then Down by 5:
\* back at (x, 0).
C10_Witness ==
    /\ mp.phase = "back"
    /\ mp.dir = "Up"
    /\ mp.distance = 5
    /\ mp.pos[2] = 0
    /\ mp.out = mp.pos

\* C11: the core never panics: the apple is present when Game::update
\* unwraps it, the body has a head when Snek::update reads it, move_counter + 1
\* fits the u8 and board_size.N - 1 does not underflow, for boards of 1..255
\* by 1..255 and updates_per_move in 1..255.
C11_NoPanic ==
    /\ ~panicked
    /\ Len(snek.segs) >= 1
    /\ snek.move_counter + 1 <= U8Max
    /\ game_size[1] - 1 >= 0
    /\ game_size[2] - 1 >= 0
    /\ (ret # None) => (apple_pos # None \/ hung)

\* With 255 updates per move, an update has taken move_counter to 254.
C11_Witness ==
    /\ updates_per_move = U8Max
    /\ ev[1] = "Update"
    /\ ret = <<FALSE, FALSE>>
    /\ snek.move_counter = U8Max - 1
    /\ ~panicked

\* The tiles of the board with no segment on them.
FreeTiles == Tiles(game_size) \ Range(snek.segs)

\* C12: with a tile of the board off the snake, randomize_apple eventually
\* returns (under fair draws), with the apple on such a tile; with the snake
\* on every tile of the board it never returns.
C12_PlacementTerminates ==
    /\ (pc = "randomize_apple" /\ FreeTiles # {}) ~> (pc = "idle")
    /\ [](pc = "idle" => apple_pos \in FreeTiles)
    /\ []((FreeTiles = {}) => pc = "randomize_apple")

\* The loop has returned with the apple placed off a snake of two segments or
\* more.
C12_Witness ==
    /\ pc = "idle"
    /\ ev[1] = "Update"
    /\ Len(snek.segs) >= 2
    /\ apple_pos \in FreeTiles

\* The last event was a Running update in which the snake ate the apple
\* without colliding.
AteLastTick == ev[1] = "Update" /\ ret # None /\ ret[1] /\ ~ret[2]

\* C13 as stated: after a Running tick in which the snake ate the apple
\* without colliding, apple_pos is None (until the next Running tick).
C13_ClearedAfterEating == AteLastTick => apple_pos = None

\* C13, amended: the tick in which the snake eats the apple places the apple
\* again before it returns, on a tile of the board off the grown snake; once
\* the snake has moved or grown, apple_pos is not None between events.
C13_ReplacedSameTick ==
    /\ (AteLastTick /\ ~hung) =>
          /\ apple_pos # None
          /\ apple_pos \in Tiles(game_size)
          /\ apple_pos \notin Range(snek.segs)
    /\ (apple_pos = None /\ ~hung) =>
          /\ snek.segs = << <<0, 0>> >>
          /\ snek.move_counter = 0
          /\ ret = None

\* The snake has just eaten its first apple and the next apple is on the board.
C13_Witness ==
    /\ AteLastTick
    /\ ~hung
    /\ Len(snek.segs) = 2
    /\ apple_pos # None
    /\ state = "Running"

\* C14: an update event while Paused leaves segments, headings, move_counter,
\* apple and state as they were (no apple is placed, Snek::update is not
\* called); a press of Space, which pauses and resumes, leaves the snake and
\* the apple as they were, so the updates left until the next move are the
\* same after a pause and a resume.
C14_PausedTickIdle ==
    [][/\ (ev'[1] = "Update" /\ state = "Paused") =>
             /\ UNCHANGED <<snek, apple_pos, state, game_size, updates_per_move>>
             /\ ret' = None
             /\ ~hung'
       /\ (ev' = <<"Press", "Space">>) =>
             UNCHANGED <<snek, apple_pos>>]_vars

\* An update arrived while the game was paused one update short of a move.
C14_Witness ==
    /\ state = "Paused"
    /\ ev[1] = "Update"
    /\ updates_per_move = 2
    /\ snek.move_counter = 1
    /\ apple_pos # None

\* C15: between events move_counter is at least 0 and less than
\* updates_per_move, for updates_per_move from 1 to 255.
C15_CounterInRange ==
    /\ snek.updates_per_move = updates_per_move
    /\ 0 <= snek.move_counter
    /\ snek.move_counter < updates_per_move

\* With 255 updates per move, the update at move_counter = 254 has moved the
\* snake and reset the counter.
C15_Witness ==
    /\ updates_per_move = U8Max
    /\ ev[1] = "Update"
    /\ ret # None
    /\ snek.move_counter = 0

\* C16: every segment (x, y) has 0 <= x < board width and 0 <= y < board
\* height, for widths and heights from 1 to 255.
C16_SegmentsOnBoard ==
    \A i \in 1..Len(snek.segs) :
        /\ 0 <= snek.segs[i][1]
        /\ snek.segs[i][1] < game_size[1]
        /\ 0 <= snek.segs[i][2]
        /\ snek.segs[i][2] < game_size[2]

\* On a board 255 wide the snake has moved Right from x = 254: the head is
\* still at x = 254 (and the game is Lost), not at x = 255.
C16_Witness ==
    /\ game_size[1] = U8Max
    /\ state = "Lost"
    /\ ev[1] = "Update"
    /\ ret # None
    /\ snek.move_counter = 0
    /\ snek.dir = "Right"
    /\ Head(snek.segs)[1] = U8Max - 1

\* C17: the pending heading is never the opposite of the committed heading,
\* and the heading a move commits is never the opposite of the heading the
\* previous move committed, whatever keys were pressed in between.
C17_NoReversal ==
    /\ [](snek.next_dir # Reverse[snek.dir])
    /\ [][CommittedMove => snek'.dir # Reverse[snek.dir]]_vars

\* A snake of three segments or more has turned and moved Down.
C17_Witness ==
    /\ ev[1] = "Update"
    /\ ret # None
    /\ snek.move_counter = 0
    /\ snek.dir = "Down"
    /\ Len(snek.segs) >= 3
    /\ state = "Running"

\* C18: whenever the apple is on the board it is on no segment of the snake,
\* in Running, Paused and Lost alike; and no call of Snek::update by
\* Game::update returns apple_eaten and game_lost both true.
C18_AppleNeverOnSnake ==
    /\ (apple_pos # None) => (\A i \in 1..Len(snek.segs) : snek.segs[i] # apple_pos)
    /\ (ret # None) => ~(ret[1] /\ ret[2])

\* A lost game with a snake of three segments or more and the apple on the
\* board.
C18_Witness ==
    /\ state = "Lost"
    /\ ret = <<FALSE, TRUE>>
    /\ apple_pos # None
    /\ Len(snek.segs) >= 3

\* C19: while the game is not Lost the segments are on pairwise distinct
\* tiles (two segments share a tile only in Lost), and after a press of R
\* they are distinct again.
C19_DistinctSegments ==
    /\ (state # "Lost") =>
          (\A i, j \in 1..Len(snek.segs) : snek.segs[i] = snek.segs[j] => i = j)
    /\ (ev = <<"Press", "R">>) =>
          /\ state # "Lost"
          /\ Cardinality(Range(snek.segs)) = Len(snek.segs)

\* A lost game in which the head shares its tile with another segment.
C19_Witness ==
    /\ state = "Lost"
    /\ Len(snek.segs) >= 3
    /\ Head(snek.segs) \in Range(Tail(snek.segs))

=============================================================================
